---- MODULE Spec2Model ----
(***************************************************************************)
(* A model of liboptions (src/src/liboptions/liboptions.py):               *)
(*   - opt_generator, the character-level parser of option strings, as a   *)
(*     generator frame `gen` stepped one character at a time;              *)
(*   - OptManager, the two registries and register_opt / usage /           *)
(*     process_dict, each call one action.                                 *)
(* Python strings are sequences of one-character strings.  None is the     *)
(* empty tuple and a present value x is the one-element tuple <<x>>.       *)
(***************************************************************************)
EXTENDS Integers, Sequences, FiniteSets, TLC

VARIABLES opt_str, pos, gen, required_opt_dict, not_required_opt_dict, call

vars == <<opt_str, pos, gen, required_opt_dict, not_required_opt_dict, call>>
parser_vars == <<opt_str, pos, gen>>
manager_vars == <<required_opt_dict, not_required_opt_dict, call>>

\* ------------------------------------------------------------------ bounds
\* Every string over Alphabet of at most MaxLen characters is an input.
MaxLen == 5
\* Well-formed scalar and list inputs carry at most MaxItems items.
MaxItems == 3
\* Escaped and quoted inputs carry a value of at most MaxValLen characters.
MaxValLen == 3
\* The option names a manager is called with are the first MaxNames of NameList.
MaxNames == 2

\* ------------------------------------------------------------- basic values
None == <<>>
Some(x) == <<x>>

BS == "\\"
DQ == "\""
SP == " "
LB == "["
RB == "]"
EQ == "="
CM == ","

Ordinary == {"a", "b"}
Specials == {CM, EQ, LB, RB, SP}
Alphabet == Ordinary \cup Specials \cup {DQ, BS}

\* What a call of the manager gives back: a value, or a raised ValueError.
Return(v) == <<"return", v>>
RaiseValueError(kind, opt_name) == <<"raise", kind, opt_name>>
Raised(r) == r[1] = "raise"

\* A str value, a list value, and the two kinds of list item.
StrV(s) == <<"str", s>>
ListV(items) == <<"list", items>>
StrItem(s) == <<"str", s>>
TupleItem(k, v) == <<"tuple", k, v>>

\* -------------------------------------------------------------- the parser
\* opt_generator's locals (lines 340-346), what it has yielded so far, and
\* where it stands: in the loop, returned, or left by a raised exception.
GenInit ==
  [ buffer |-> <<>>, escape_detected |-> FALSE, string_detected |-> FALSE,
    is_list |-> FALSE, name |-> None, tuple_name |-> None, data |-> None,
    yielded |-> <<>>, pc |-> "loop", raised |-> "none" ]

Raise(g, kind) == [g EXCEPT !.pc = "raised", !.raised = kind]

Yield(g, nm, value) == [g EXCEPT !.yielded = Append(@, <<nm, value>>)]

\* The item `]` and `,` append to the list (lines 387-391, 421-425).
ListItem(g) ==
  IF g.tuple_name # None THEN TupleItem(g.tuple_name[1], g.buffer)
  ELSE StrItem(g.buffer)

\* OnEscaped with `escape_detected = False` (line 351) left out.
OnEscapedStaysEscaped(g, ch) == [g EXCEPT !.buffer = Append(@, ch)]

\* lines 349-352
OnEscaped(g, ch) ==
  [g EXCEPT !.buffer = Append(@, ch), !.escape_detected = FALSE]

\* lines 357-362
OnQuote(g) == [g EXCEPT !.string_detected = ~@]

\* lines 363-365
OnStringChar(g, ch) == [g EXCEPT !.buffer = Append(@, ch)]

\* lines 370-372
OnBackslash(g) == [g EXCEPT !.escape_detected = TRUE]

\* OnSpace falling through to `buffer += char` (line 434).
OnSpaceKept(g) == [g EXCEPT !.buffer = Append(@, SP)]

\* lines 374-375
OnSpace(g) == g

\* OnOpenList with the `if is_list` test (line 379) left out.
OnOpenListNoCheck(g) == [g EXCEPT !.is_list = TRUE, !.data = Some(<<>>)]

\* lines 377-383
OnOpenList(g) ==
  IF g.is_list THEN Raise(g, "NestedList")
  ELSE [g EXCEPT !.is_list = TRUE, !.data = Some(<<>>)]

\* OnCloseList appending the buffer alone, the pending tuple_name ignored.
OnCloseListDropsKey(g) ==
  IF g.data = None
  THEN Raise([g EXCEPT !.is_list = FALSE], "AttributeError")
  ELSE LET items == Append(g.data[1], StrItem(g.buffer))
       IN  [ Yield(g, g.name, ListV(items)) EXCEPT
               !.is_list = FALSE, !.tuple_name = None, !.name = None,
               !.data = None, !.buffer = <<>> ]

\* lines 385-396; data is None when no list is open, and None has no append.
OnCloseList(g) ==
  IF g.data = None
  THEN Raise([g EXCEPT !.is_list = FALSE], "AttributeError")
  ELSE LET items == Append(g.data[1], ListItem(g))
       IN  [ Yield(g, g.name, ListV(items)) EXCEPT
               !.is_list = FALSE, !.tuple_name = None, !.name = None,
               !.data = None, !.buffer = <<>> ]

\* OnEquals with the `if buffer` test of the option name (line 402) left out.
OnEqualsAcceptsEmptyName(g) ==
  IF g.name = None
  THEN [g EXCEPT !.name = Some(g.buffer), !.buffer = <<>>]
  ELSE IF g.tuple_name = None /\ g.is_list
  THEN IF g.buffer # <<>>
       THEN [g EXCEPT !.tuple_name = Some(g.buffer), !.buffer = <<>>]
       ELSE Raise(g, "EmptyListName")
  ELSE Raise(g, "TwoEquals")

\* lines 400-417
OnEquals(g) ==
  IF g.name = None
  THEN IF g.buffer # <<>>
       THEN [g EXCEPT !.name = Some(g.buffer), !.buffer = <<>>]
       ELSE Raise(g, "NoName")
  ELSE IF g.tuple_name = None /\ g.is_list
  THEN IF g.buffer # <<>>
       THEN [g EXCEPT !.tuple_name = Some(g.buffer), !.buffer = <<>>]
       ELSE Raise(g, "EmptyListName")
  ELSE Raise(g, "TwoEquals")

\* OnComma with `buffer = ""` (line 431) left out.
OnCommaKeepsBuffer(g) ==
  IF g.is_list
  THEN [g EXCEPT !.data = Some(Append(g.data[1], ListItem(g))),
                 !.tuple_name = None]
  ELSE [ Yield(g, g.name, StrV(g.buffer)) EXCEPT
           !.name = None, !.data = None ]

\* OnComma with `tuple_name = None` (line 423) left out.
OnCommaKeepsKey(g) ==
  IF g.is_list
  THEN [g EXCEPT !.data = Some(Append(g.data[1], ListItem(g))),
                 !.buffer = <<>>]
  ELSE [ Yield(g, g.name, StrV(g.buffer)) EXCEPT
           !.name = None, !.data = None, !.buffer = <<>> ]

\* lines 419-432
OnComma(g) ==
  IF g.is_list
  THEN [g EXCEPT !.data = Some(Append(g.data[1], ListItem(g))),
                 !.tuple_name = None, !.buffer = <<>>]
  ELSE [ Yield(g, g.name, StrV(g.buffer)) EXCEPT
           !.name = None, !.data = None, !.buffer = <<>> ]

\* line 434
OnOrdinary(g, ch) == [g EXCEPT !.buffer = Append(@, ch)]

\* AtEnd yielding the trailing buffer before it tests for a missing name.
AtEndYieldsFirst(g) ==
  IF g.name = None /\ g.buffer # <<>>
  THEN Raise(Yield(g, g.name, StrV(g.buffer)), "NoName")
  ELSE IF g.name # None
  THEN [Yield(g, g.name, StrV(g.buffer)) EXCEPT !.pc = "done"]
  ELSE [g EXCEPT !.pc = "done"]

\* lines 436-440
AtEnd(g) ==
  IF g.name = None /\ g.buffer # <<>> THEN Raise(g, "NoName")
  ELSE IF g.name # None
  THEN [Yield(g, g.name, StrV(g.buffer)) EXCEPT !.pc = "done"]
  ELSE [g EXCEPT !.pc = "done"]

\* The branch of the loop body that character ch takes, in the order the
\* code tests (lines 349-434).
CharClass(g, ch) ==
  IF g.escape_detected THEN "escaped"
  ELSE IF ch = DQ THEN "quote"
  ELSE IF g.string_detected THEN "string"
  ELSE IF ch = BS THEN "backslash"
  ELSE IF ch = SP THEN "space"
  ELSE IF ch = LB THEN "open"
  ELSE IF ch = RB THEN "close"
  ELSE IF ch = EQ THEN "equals"
  ELSE IF ch = CM THEN "comma"
  ELSE "ordinary"

\* One iteration of `for char in opt_str` (lines 348-434).
Step(g, ch) ==
  CASE CharClass(g, ch) = "escaped"   -> OnEscaped(g, ch)
    [] CharClass(g, ch) = "quote"     -> OnQuote(g)
    [] CharClass(g, ch) = "string"    -> OnStringChar(g, ch)
    [] CharClass(g, ch) = "backslash" -> OnBackslash(g)
    [] CharClass(g, ch) = "space"     -> OnSpace(g)
    [] CharClass(g, ch) = "open"      -> OnOpenList(g)
    [] CharClass(g, ch) = "close"     -> OnCloseList(g)
    [] CharClass(g, ch) = "equals"    -> OnEquals(g)
    [] CharClass(g, ch) = "comma"     -> OnComma(g)
    [] OTHER                          -> OnOrdinary(g, ch)

\* ------------------------------------------------------------ input strings
StringsUpTo(S, n) == UNION {[1..k -> S] : k \in 0..n}

RECURSIVE Join(_)
Join(pieces) ==
  IF Len(pieces) = 0 THEN <<>>
  ELSE IF Len(pieces) = 1 THEN pieces[1]
  ELSE pieces[1] \o <<CM>> \o Join(Tail(pieces))

\* The text of a value with every special character escaped, and quoted
\* (module docstring, lines 34-39).
RECURSIVE Escape(_)
Escape(v) ==
  IF v = <<>> THEN <<>>
  ELSE (IF Head(v) \in Specials THEN <<BS, Head(v)>> ELSE <<Head(v)>>)
       \o Escape(Tail(v))

Quote(v) == <<DQ>> \o v \o <<DQ>>

ItemNames == {<<"a">>, <<"b">>}
ItemValues == {<<>>, <<"a">>, <<"b", "a">>}
ScalarItems == {n \o <<EQ>> \o v : n \in ItemNames, v \in ItemValues}
ListItems == {<<>>, <<"a">>, <<"b">>, <<"a", EQ, "b">>, <<"b", EQ>>}

ItemLists(S) == UNION {[1..k -> S] : k \in 1..MaxItems}

ScalarInputs ==
  {Join(its) \o t : its \in ItemLists(ScalarItems), t \in {<<>>, <<CM>>}}

ListInputs ==
  {n \o <<EQ, LB>> \o Join(its) \o <<RB>> :
     n \in ItemNames, its \in ItemLists(ListItems)}

RoundTripValues == StringsUpTo(Ordinary \cup Specials, MaxValLen)

\* The generator run to its end on the characters s, from frame g: the loop
\* (line 348) until a raise or the end of s, then lines 436-440.
RECURSIVE Run(_, _)
Run(g, s) ==
  IF g.pc # "loop" THEN g
  ELSE IF s = <<>> THEN AtEnd(g)
  ELSE Run(Step(g, Head(s)), Tail(s))

RoundTripInputs ==
  {<<"a", EQ>> \o Escape(v) : v \in RoundTripValues}
  \cup {<<"a", EQ>> \o Quote(v) : v \in RoundTripValues}

Inputs ==
  StringsUpTo(Alphabet, MaxLen) \cup ScalarInputs \cup ListInputs
  \cup RoundTripInputs

\* ----------------------------------------------------------- parser actions
Running == gen.pc = "loop" /\ pos <= Len(opt_str)
Cur == opt_str[pos]

Consume(g) ==
  /\ gen' = g
  /\ pos' = pos + 1
  /\ UNCHANGED <<opt_str, manager_vars>>

Escaped == Running /\ CharClass(gen, Cur) = "escaped" /\ Consume(OnEscaped(gen, Cur))
QuoteChar == Running /\ CharClass(gen, Cur) = "quote" /\ Consume(OnQuote(gen))
StringChar == Running /\ CharClass(gen, Cur) = "string" /\ Consume(OnStringChar(gen, Cur))
Backslash == Running /\ CharClass(gen, Cur) = "backslash" /\ Consume(OnBackslash(gen))
Space == Running /\ CharClass(gen, Cur) = "space" /\ Consume(OnSpace(gen))
OpenList == Running /\ CharClass(gen, Cur) = "open" /\ Consume(OnOpenList(gen))
CloseList == Running /\ CharClass(gen, Cur) = "close" /\ Consume(OnCloseList(gen))
Equals == Running /\ CharClass(gen, Cur) = "equals" /\ Consume(OnEquals(gen))
Comma == Running /\ CharClass(gen, Cur) = "comma" /\ Consume(OnComma(gen))
OrdinaryChar == Running /\ CharClass(gen, Cur) = "ordinary" /\ Consume(OnOrdinary(gen, Cur))

EndOfInput ==
  /\ gen.pc = "loop"
  /\ pos = Len(opt_str) + 1
  /\ gen' = AtEnd(gen)
  /\ UNCHANGED <<opt_str, pos, manager_vars>>

\* No call of the manager is under way: the caller holds no result.
NoCall == [op |-> "none", args |-> <<>>, result |-> Return(None)]

ManagerIdle ==
  /\ required_opt_dict = <<>>
  /\ not_required_opt_dict = <<>>
  /\ call = NoCall

Init ==
  /\ opt_str \in Inputs
  /\ pos = 1
  /\ gen = GenInit
  /\ ManagerIdle

Next ==
  \/ Escaped
  \/ QuoteChar
  \/ StringChar
  \/ Backslash
  \/ Space
  \/ OpenList
  \/ CloseList
  \/ Equals
  \/ Comma
  \/ OrdinaryChar
  \/ EndOfInput

Spec == Init /\ [][Next]_vars

\* ------------------------------------------------------------- OptManager
\* In this part an option name and a str value are TLA+ strings: the manager
\* never looks inside a name, and looks at a str only through equality,
\* emptiness and date.fromisoformat.  A dict that keeps insertion order is a
\* sequence of <<key, value>> entries; opt_dict, which is only looked up, is a
\* function.
OptType_STRING == "STRING"
OptType_BOOL == "BOOL"
OptType_LIST == "LIST"
OptType_LIST_OF_TUPLES == "LIST_OF_TUPLES"
OptType_YMD_DATE == "YMD_DATE"

\* line 102-106
known_types == {OptType_STRING, OptType_BOOL, OptType_LIST, OptType_LIST_OF_TUPLES, OptType_YMD_DATE}

Keys(d) == {d[i][1] : i \in 1..Len(d)}

\* RegisterOpt looking for opt_name only in the dict it is about to store into.
RegisterOptChecksOwnDict(req, nreq, opt_name, opt_type, is_required) ==
  IF opt_name \in Keys(IF is_required THEN req ELSE nreq)
  THEN [req |-> req, nreq |-> nreq,
        result |-> RaiseValueError("AlreadyRegistered", opt_name)]
  ELSE IF opt_type \notin known_types
  THEN [req |-> req, nreq |-> nreq,
        result |-> RaiseValueError("UnknownType", opt_name)]
  ELSE IF is_required
  THEN [req |-> Append(req, <<opt_name, opt_type>>), nreq |-> nreq,
        result |-> Return(None)]
  ELSE [req |-> req, nreq |-> Append(nreq, <<opt_name, opt_type>>),
        result |-> Return(None)]

\* RegisterOpt storing the option before it looks at the type: a call that
\* raises for an unknown type leaves the entry behind.
RegisterOptStoresFirst(req, nreq, opt_name, opt_type, is_required) ==
  IF opt_name \in Keys(nreq) \/ opt_name \in Keys(req)
  THEN [req |-> req, nreq |-> nreq,
        result |-> RaiseValueError("AlreadyRegistered", opt_name)]
  ELSE [req |-> IF is_required THEN Append(req, <<opt_name, opt_type>>) ELSE req,
        nreq |-> IF is_required THEN nreq ELSE Append(nreq, <<opt_name, opt_type>>),
        result |-> IF opt_type \notin known_types
                   THEN RaiseValueError("UnknownType", opt_name)
                   ELSE Return(None)]

\* lines 124-135: the two dicts after the call, and what the call returned.
RegisterOpt(req, nreq, opt_name, opt_type, is_required) ==
  IF opt_name \in Keys(nreq) \/ opt_name \in Keys(req)
  THEN [req |-> req, nreq |-> nreq,
        result |-> RaiseValueError("AlreadyRegistered", opt_name)]
  ELSE IF opt_type \notin known_types
  THEN [req |-> req, nreq |-> nreq,
        result |-> RaiseValueError("UnknownType", opt_name)]
  ELSE IF is_required
  THEN [req |-> Append(req, <<opt_name, opt_type>>), nreq |-> nreq,
        result |-> Return(None)]
  ELSE [req |-> req, nreq |-> Append(nreq, <<opt_name, opt_type>>),
        result |-> Return(None)]

\* lines 169-191
UsageStr(opt_name, opt_type, is_required) ==
  LET opt_mark == IF is_required THEN "<required>" ELSE "<optional>"
      inner == IF is_required THEN "required" ELSE "optional"
      item_name == "<item_name>"
  IN  CASE opt_type = OptType_STRING -> opt_name \o "=" \o opt_mark
        [] opt_type = OptType_LIST ->
             opt_name \o "=[" \o opt_mark \o ", .... " \o opt_mark \o "]"
        [] opt_type = OptType_LIST_OF_TUPLES ->
             opt_name \o "=[" \o item_name \o "=" \o opt_mark \o ", ..., "
               \o item_name \o "=" \o opt_mark
        [] opt_type = OptType_BOOL -> opt_name \o "=<yes/no (" \o inner \o ")>"
        [] opt_type = OptType_YMD_DATE -> opt_name \o "=<yyyy-mm-dd (" \o inner \o ")>"
        [] OTHER -> "this is wrong"

\* lines 145-149 and 151-154: one loop over a dict, appending to usage.
RECURSIVE UsageLoop(_, _, _)
UsageLoop(usage, d, is_required) ==
  IF d = <<>> THEN usage
  ELSE UsageLoop((IF usage # "" THEN usage \o "," ELSE usage)
                   \o UsageStr(d[1][1], d[1][2], is_required),
                 Tail(d), is_required)

\* lines 143-156
Usage(req, nreq) == UsageLoop(UsageLoop("", req, TRUE), nreq, FALSE)

\* date.fromisoformat on the str values of OptValues (line 242).
FromIsoFormat(s) ==
  IF s = "1970-01-01" THEN Return(<<"date", 1970, 1, 1>>)
  ELSE RaiseValueError("InvalidIsoFormat", s)

IsStr(v) == v[1] = "str"
IsList(v) == v[1] = "list"
IsTuple(x) == x[1] = "tuple"
\* Empty holding of no value: "" and [] count as true.
EmptyNever(v) == FALSE

\* len(opt_value) and bool(opt_value) of a str or a list
Empty(v) == IF IsStr(v) THEN v[2] = "" ELSE v[2] = <<>>
\* all(isinstance(x, tuple) for x in opt_value): a str iterates over its
\* characters, none of them a tuple.
AllTuples(v) ==
  IF IsStr(v) THEN v[2] = ""
  ELSE \A i \in 1..Len(v[2]) : IsTuple(v[2][i])

BoolV(b) == <<"bool", b>>

\* lines 215-257: Return(None), Return(Some(processed)) or a raise.
ProcessOpt(opt_name, opt_value, opt_type) ==
  LET mismatch == RaiseValueError("NotCompatible", opt_name)
  IN  CASE opt_type = OptType_STRING ->
             IF ~IsStr(opt_value) THEN mismatch
             ELSE IF ~Empty(opt_value) THEN Return(Some(opt_value))
             ELSE Return(None)
        [] opt_type = OptType_LIST ->
             IF ~IsList(opt_value) THEN mismatch
             ELSE IF ~Empty(opt_value) THEN Return(Some(opt_value))
             ELSE Return(None)
        [] opt_type = OptType_LIST_OF_TUPLES ->
             IF ~AllTuples(opt_value) THEN mismatch
             ELSE IF ~Empty(opt_value) THEN Return(Some(opt_value))
             ELSE Return(None)
        [] opt_type = OptType_BOOL ->
             IF opt_value = StrV("yes") THEN Return(Some(BoolV(TRUE)))
             ELSE IF opt_value = StrV("no") THEN Return(Some(BoolV(FALSE)))
             ELSE mismatch
        [] opt_type = OptType_YMD_DATE ->
             IF IsStr(opt_value) /\ ~Empty(opt_value)
                  /\ ~Raised(FromIsoFormat(opt_value[2]))
             THEN Return(Some(FromIsoFormat(opt_value[2])[2]))
             ELSE mismatch
        [] OTHER -> RaiseValueError("UnknownType", opt_name)

\* RequiredLoop without `opt_ok = False` (lines 290-291): a required option
\* whose value processes to None is passed over.
RECURSIVE RequiredLoopSkipsNone(_, _, _)
RequiredLoopSkipsNone(d, opt_dict, options) ==
  IF d = <<>> THEN Return(options)
  ELSE LET opt_name == d[1][1]
           opt_type == d[1][2]
       IN  IF opt_name \notin DOMAIN opt_dict
           THEN RaiseValueError("RequiredNotFound", opt_name)
           ELSE LET processed_opt ==
                      ProcessOpt(opt_name, opt_dict[opt_name], opt_type)
                IN  IF Raised(processed_opt) THEN processed_opt
                    ELSE IF processed_opt[2] # None
                    THEN RequiredLoopSkipsNone(Tail(d), opt_dict,
                           Append(options, <<opt_name, processed_opt[2][1]>>))
                    ELSE RequiredLoopSkipsNone(Tail(d), opt_dict, options)

\* lines 280-294: the loop over the required options.
RECURSIVE RequiredLoop(_, _, _)
RequiredLoop(d, opt_dict, options) ==
  IF d = <<>> THEN Return(options)
  ELSE LET opt_name == d[1][1]
           opt_type == d[1][2]
       IN  IF opt_name \notin DOMAIN opt_dict
           THEN RaiseValueError("RequiredNotFound", opt_name)
           ELSE LET processed_opt ==
                      ProcessOpt(opt_name, opt_dict[opt_name], opt_type)
                IN  IF Raised(processed_opt) THEN processed_opt
                    ELSE IF processed_opt[2] # None
                    THEN RequiredLoop(Tail(d), opt_dict,
                           Append(options, <<opt_name, processed_opt[2][1]>>))
                    ELSE RaiseValueError("RequiredNotFound", opt_name)

\* NotRequiredLoop with `if processed_opt:` for `if processed_opt is not
\* None:` (line 301): a processed value that is false is passed over.
RECURSIVE NotRequiredLoopTruthy(_, _, _)
NotRequiredLoopTruthy(d, opt_dict, options) ==
  IF d = <<>> THEN Return(options)
  ELSE LET opt_name == d[1][1]
           opt_type == d[1][2]
       IN  IF opt_name \notin DOMAIN opt_dict
           THEN NotRequiredLoopTruthy(Tail(d), opt_dict, options)
           ELSE LET processed_opt ==
                      ProcessOpt(opt_name, opt_dict[opt_name], opt_type)
                IN  IF Raised(processed_opt) THEN processed_opt
                    ELSE IF processed_opt[2] # None
                            /\ processed_opt[2][1] # BoolV(FALSE)
                    THEN NotRequiredLoopTruthy(Tail(d), opt_dict,
                           Append(options, <<opt_name, processed_opt[2][1]>>))
                    ELSE NotRequiredLoopTruthy(Tail(d), opt_dict, options)

\* lines 296-304: the loop over the not-required options.
RECURSIVE NotRequiredLoop(_, _, _)
NotRequiredLoop(d, opt_dict, options) ==
  IF d = <<>> THEN Return(options)
  ELSE LET opt_name == d[1][1]
           opt_type == d[1][2]
       IN  IF opt_name \notin DOMAIN opt_dict
           THEN NotRequiredLoop(Tail(d), opt_dict, options)
           ELSE LET processed_opt ==
                      ProcessOpt(opt_name, opt_dict[opt_name], opt_type)
                IN  IF Raised(processed_opt) THEN processed_opt
                    ELSE IF processed_opt[2] # None
                    THEN NotRequiredLoop(Tail(d), opt_dict,
                           Append(options, <<opt_name, processed_opt[2][1]>>))
                    ELSE NotRequiredLoop(Tail(d), opt_dict, options)

\* ProcessDict running the loop over the not-required options first.
ProcessDictOptionalFirst(req, nreq, opt_dict) ==
  LET r == NotRequiredLoop(nreq, opt_dict, <<>>)
  IN  IF Raised(r) THEN r ELSE RequiredLoop(req, opt_dict, r[2])

\* lines 279-306
ProcessDict(req, nreq, opt_dict) ==
  LET r == RequiredLoop(req, opt_dict, <<>>)
  IN  IF Raised(r) THEN r ELSE NotRequiredLoop(nreq, opt_dict, r[2])

\* ------------------------------------------------------ manager's callers
NameList == <<"x", "y", "z", "w">>
Names == {NameList[i] : i \in 1..MaxNames}
\* The five OptType members and something that is none of them.
TypeArgs == known_types \cup {"UNKNOWN"}
OptValues ==
  { StrV(""), StrV("yes"), StrV("no"), StrV("1970-01-01"),
    ListV(<<>>), ListV(<<StrItem("1")>>), ListV(<<TupleItem("k", "v")>>),
    ListV(<<StrItem("1"), TupleItem("k", "v")>>) }
OptDicts == UNION {[S -> OptValues] : S \in SUBSET Names}

ParserIdle ==
  /\ opt_str = <<>>
  /\ pos = 1
  /\ gen = GenInit

\* lines 101-109
ManagerInit ==
  /\ ParserIdle
  /\ ManagerIdle

\* Calls are synchronous: the caller makes a call, holds what it gave back
\* (call), and goes on to its next call.
register_opt ==
  \E opt_name \in Names, opt_type \in TypeArgs, is_required \in BOOLEAN :
     LET r == RegisterOpt(required_opt_dict, not_required_opt_dict,
                          opt_name, opt_type, is_required)
     IN  /\ call = NoCall
         /\ required_opt_dict' = r.req
         /\ not_required_opt_dict' = r.nreq
         /\ call' = [op |-> "register_opt",
                     args |-> <<opt_name, opt_type, is_required>>,
                     result |-> r.result]
         /\ UNCHANGED parser_vars

\* usage taking the options out of the dicts as it lists them.
usage_draining ==
  /\ call = NoCall
  /\ call' = [op |-> "usage", args |-> <<>>,
              result |-> Return(Usage(required_opt_dict, not_required_opt_dict))]
  /\ required_opt_dict' = <<>>
  /\ not_required_opt_dict' = <<>>
  /\ UNCHANGED parser_vars

usage ==
  /\ call = NoCall
  /\ call' = [op |-> "usage", args |-> <<>>,
              result |-> Return(Usage(required_opt_dict, not_required_opt_dict))]
  /\ UNCHANGED <<required_opt_dict, not_required_opt_dict, parser_vars>>

process_dict ==
  \E opt_dict \in OptDicts :
     /\ call = NoCall
     /\ call' = [op |-> "process_dict", args |-> <<opt_dict>>,
                 result |-> ProcessDict(required_opt_dict,
                                        not_required_opt_dict, opt_dict)]
     /\ UNCHANGED <<required_opt_dict, not_required_opt_dict, parser_vars>>

caller_continues ==
  /\ call # NoCall
  /\ call' = NoCall
  /\ UNCHANGED <<required_opt_dict, not_required_opt_dict, parser_vars>>

ManagerNext ==
  \/ register_opt
  \/ usage
  \/ process_dict
  \/ caller_continues

SpecManager == ManagerInit /\ [][ManagerNext]_vars

\* ------------------------------------------------- reading an input string
\* What the text of an input says, read off the string itself: the formulas
\* below compare the parser's output with it.
Finished == gen.pc # "loop"

RECURSIVE IndexOf(_, _)
IndexOf(s, ch) ==
  IF s = <<>> THEN 0
  ELSE IF Head(s) = ch THEN 1
  ELSE LET i == IndexOf(Tail(s), ch) IN IF i = 0 THEN 0 ELSE i + 1

RECURSIVE SplitOn(_, _)
SplitOn(s, ch) ==
  LET i == IndexOf(s, ch)
  IN  IF i = 0 THEN <<s>>
      ELSE <<SubSeq(s, 1, i - 1)>> \o SplitOn(SubSeq(s, i + 1, Len(s)), ch)

Plain(s) == \A i \in 1..Len(s) : s[i] \in Ordinary
Before(s, ch) == SubSeq(s, 1, IndexOf(s, ch) - 1)
After(s, ch) == SubSeq(s, IndexOf(s, ch) + 1, Len(s))

\* name=value with a non-empty name, both free of special characters.
IsNameValue(p) ==
  /\ IndexOf(p, EQ) > 1
  /\ Plain(Before(p, EQ))
  /\ Plain(After(p, EQ))

DropTrailingComma(s) ==
  IF s # <<>> /\ s[Len(s)] = CM THEN SubSeq(s, 1, Len(s) - 1) ELSE s

ScalarPieces(s) == SplitOn(DropTrailingComma(s), CM)

IsScalarInput(s) ==
  \A i \in 1..Len(ScalarPieces(s)) : IsNameValue(ScalarPieces(s)[i])

ScalarPairs(s) ==
  [i \in 1..Len(ScalarPieces(s)) |->
     <<Some(Before(ScalarPieces(s)[i], EQ)), StrV(After(ScalarPieces(s)[i], EQ))>>]

\* C1: a finished parse of comma-separated name=value items (plain
\* characters, non-empty names, trailing comma or not) has returned normally
\* and has yielded exactly one (name, value) pair per item, in input order.
C1_ScalarPairsInOrder ==
  (Finished /\ IsScalarInput(opt_str)) =>
     /\ gen.pc = "done"
     /\ gen.yielded = ScalarPairs(opt_str)

C1_Witness ==
  /\ gen.pc = "done"
  /\ IsScalarInput(opt_str)
  /\ opt_str[Len(opt_str)] = CM
  /\ Len(gen.yielded) = 3
  /\ gen.yielded[1] # gen.yielded[2]

\* name=[i1,...,in]: one list, nothing after the closing bracket.
ListInner(s) == SubSeq(s, IndexOf(s, EQ) + 2, Len(s) - 1)
ListPieces(s) == SplitOn(ListInner(s), CM)

IsListInput(s) ==
  /\ IndexOf(s, EQ) > 1
  /\ Plain(Before(s, EQ))
  /\ Len(s) >= IndexOf(s, EQ) + 2
  /\ s[IndexOf(s, EQ) + 1] = LB
  /\ s[Len(s)] = RB
  /\ \A i \in 1..Len(ListPieces(s)) :
        Plain(ListPieces(s)[i]) \/ IsNameValue(ListPieces(s)[i])

ListEntry(p) ==
  IF IndexOf(p, EQ) = 0 THEN StrItem(p)
  ELSE TupleItem(Before(p, EQ), After(p, EQ))

ListEntries(s) == [i \in 1..Len(ListPieces(s)) |-> ListEntry(ListPieces(s)[i])]

\* C2: a finished parse of name=[i1,...,in] (plain characters, non-empty
\* name and keys) has yielded exactly one pair (name, L), L holding one entry
\* per item in input order: the string ik, or the pair (key, val) for key=val.
C2_ListEntriesInOrder ==
  (Finished /\ IsListInput(opt_str)) =>
     /\ gen.pc = "done"
     /\ gen.yielded = <<<<Some(Before(opt_str, EQ)), ListV(ListEntries(opt_str))>>>>

C2_Witness ==
  /\ gen.pc = "done"
  /\ IsListInput(opt_str)
  /\ Len(gen.yielded) = 1
  /\ Len(gen.yielded[1][2][2]) = 3
  /\ gen.yielded[1][2][2][1][1] = "tuple"
  /\ gen.yielded[1][2][2][2][1] = "str"
  /\ gen.yielded[1][2][2][2] # gen.yielded[1][2][2][3]

\* C3: every yielded pair has a name that is a non-empty string.
C3_YieldedNamesNonEmpty ==
  \A i \in 1..Len(gen.yielded) :
     gen.yielded[i][1] # None /\ gen.yielded[i][1][1] # <<>>

\* n=<escaped value> and n="<value>", the value free of quote and backslash.
Unescaped(s) == SelectSeq(s, LAMBDA c : c # BS)
Unquoted(s) == SubSeq(s, 2, Len(s) - 1)
NoQuoteNoBackslash(v) == \A i \in 1..Len(v) : v[i] \in Ordinary \cup Specials

IsEscapedInput(s) ==
  /\ IndexOf(s, EQ) > 1
  /\ Plain(Before(s, EQ))
  /\ NoQuoteNoBackslash(Unescaped(After(s, EQ)))
  /\ After(s, EQ) = Escape(Unescaped(After(s, EQ)))

IsQuotedInput(s) ==
  /\ IndexOf(s, EQ) > 1
  /\ Plain(Before(s, EQ))
  /\ Len(After(s, EQ)) >= 2
  /\ NoQuoteNoBackslash(Unquoted(After(s, EQ)))
  /\ After(s, EQ) = Quote(Unquoted(After(s, EQ)))

\* C4: a finished parse of n= followed by a value with each of , = [ ] and
\* space escaped, or by the value in double quotes, has yielded exactly one
\* pair (n, value), the value unchanged.
C4_EscapeQuoteRoundTrip ==
  /\ (Finished /\ IsEscapedInput(opt_str)) =>
        /\ gen.pc = "done"
        /\ gen.yielded =
             <<<<Some(Before(opt_str, EQ)), StrV(Unescaped(After(opt_str, EQ)))>>>>
  /\ (Finished /\ IsQuotedInput(opt_str)) =>
        /\ gen.pc = "done"
        /\ gen.yielded =
             <<<<Some(Before(opt_str, EQ)), StrV(Unquoted(After(opt_str, EQ)))>>>>

C4_Witness ==
  /\ gen.pc = "done"
  /\ IsEscapedInput(opt_str)
  /\ gen.yielded = <<<<Some(<<"a">>), StrV(<<CM, SP, RB>>)>>>>

\* C5 as stated: a failed parse has delivered no pair (looked at where every
\* pair delivered so far carries a name).
C5_NoPairBeforeFailure ==
  (gen.pc = "raised" /\ C3_YieldedNamesNonEmpty) => gen.yielded = <<>>

\* C5 amended: no step is taken after a failure, and the step that fails
\* yields nothing, so a failed parse has delivered exactly the pairs
\* completed before the violation.
C5_FailingStepYieldsNothing ==
  [][ /\ gen.pc = "loop"
      /\ gen'.pc = "raised" => gen'.yielded = gen.yielded ]_vars

C5_Witness ==
  /\ gen.pc = "raised"
  /\ Len(gen.yielded) >= 1
  /\ C3_YieldedNamesNonEmpty

\* A character met outside a quoted string and not escaped.
Meets(ch) ==
  /\ Running
  /\ Cur = ch
  /\ ~gen.escape_detected
  /\ ~gen.string_detected

\* C6: a [ met while a list is open fails with the nested-list error; a [
\* met while no list is open does not fail; no other step raises that error.
C6_NestedListRejected ==
  [][ /\ (Meets(LB) /\ gen.is_list) =>
           (gen'.pc = "raised" /\ gen'.raised = "NestedList")
      /\ (Meets(LB) /\ ~gen.is_list) => gen'.pc = "loop"
      /\ (gen'.raised = "NestedList" /\ gen.raised # "NestedList") =>
           (Meets(LB) /\ gen.is_list) ]_vars

C6_Witness ==
  /\ gen.raised = "NestedList"
  /\ gen.data # None
  /\ Len(gen.data[1]) >= 1

\* C7: an = met with no name set and an empty buffer, and the end of the
\* input with no name set and a non-empty buffer, fail with the
\* unnamed-option error, and the failing step yields no pair.
C7_UnnamedOptionRejected ==
  [][ /\ (Meets(EQ) /\ gen.name = None /\ gen.buffer = <<>>) =>
           /\ gen'.pc = "raised"
           /\ gen'.raised = "NoName"
           /\ gen'.yielded = gen.yielded
      /\ (gen.pc = "loop" /\ pos = Len(opt_str) + 1
            /\ gen.name = None /\ gen.buffer # <<>>) =>
           /\ gen'.pc = "raised"
           /\ gen'.raised = "NoName"
           /\ gen'.yielded = gen.yielded ]_vars

C7_Witness ==
  /\ gen.raised = "NoName"
  /\ gen.buffer # <<>>
  /\ Len(gen.yielded) >= 1

\* ------------------------------------------------------ manager's claims
Registered == Keys(required_opt_dict) \cup Keys(not_required_opt_dict)
NoKeyTwice(d) == \A i, j \in 1..Len(d) : d[i][1] = d[j][1] => i = j

\* C8: no option name is held twice, in one registry or across the two, and
\* a register_opt call for a name already held by either registry raises the
\* duplicate-option error whatever type and required flag it passes.
C8_NamesUniqueAcrossRegistries ==
  /\ [](/\ Keys(required_opt_dict) \cap Keys(not_required_opt_dict) = {}
        /\ NoKeyTwice(required_opt_dict)
        /\ NoKeyTwice(not_required_opt_dict))
  /\ [][(call'.op = "register_opt" /\ call'.args[1] \in Registered) =>
          call'.result = RaiseValueError("AlreadyRegistered", call'.args[1])]_vars

C8_Witness ==
  /\ call.op = "register_opt"
  /\ call.result = RaiseValueError("AlreadyRegistered", call.args[1])
  /\ call.args[1] \in Keys(required_opt_dict)
  /\ call.args[2] = "UNKNOWN"
  /\ call.args[3] = FALSE
  /\ not_required_opt_dict # <<>>

\* The values the claim lists as coercing to empty/absent.
CoercesToAbsent(opt_value, opt_type) ==
  \/ opt_type = OptType_STRING /\ opt_value = StrV("")
  \/ opt_type \in {OptType_LIST, OptType_LIST_OF_TUPLES}
       /\ opt_value = ListV(<<>>)

MissingOrAbsent(entry, opt_dict) ==
  \/ entry[1] \notin DOMAIN opt_dict
  \/ CoercesToAbsent(opt_dict[entry[1]], entry[2])

CoercesToValue(entry, opt_dict) ==
  /\ entry[1] \in DOMAIN opt_dict
  /\ ~Raised(ProcessOpt(entry[1], opt_dict[entry[1]], entry[2]))
  /\ ProcessOpt(entry[1], opt_dict[entry[1]], entry[2])[2] # None

\* C9 as stated: whenever some required option is absent or coerces to
\* absent, process_dict raises the missing-required error.
C9_MissingRequiredAlwaysReported ==
  (/\ call.op = "process_dict"
   /\ \E i \in 1..Len(required_opt_dict) :
         MissingOrAbsent(required_opt_dict[i], call.args[1]))
  => (Raised(call.result) /\ call.result[2] = "RequiredNotFound")

\* C9 amended: whenever some required option is absent or coerces to absent,
\* process_dict raises; it raises the missing-required error for that option
\* when every required option registered before it is present and coerces to
\* a value; and every mapping returned holds every required option name.
C9_MissingRequiredReported ==
  call.op = "process_dict" =>
    /\ (\E i \in 1..Len(required_opt_dict) :
          MissingOrAbsent(required_opt_dict[i], call.args[1]))
       => Raised(call.result)
    /\ \A i \in 1..Len(required_opt_dict) :
         (/\ MissingOrAbsent(required_opt_dict[i], call.args[1])
          /\ \A j \in 1..(i - 1) :
                CoercesToValue(required_opt_dict[j], call.args[1]))
         => call.result =
              RaiseValueError("RequiredNotFound", required_opt_dict[i][1])
    /\ ~Raised(call.result) => Keys(required_opt_dict) \subseteq Keys(call.result[2])

C9_Witness ==
  /\ call.op = "process_dict"
  /\ Len(required_opt_dict) = 2
  /\ CoercesToValue(required_opt_dict[1], call.args[1])
  /\ required_opt_dict[2][1] \in DOMAIN call.args[1]
  /\ MissingOrAbsent(required_opt_dict[2], call.args[1])
  /\ call.result = RaiseValueError("RequiredNotFound", required_opt_dict[2][1])

\* The error process_dict owes to one registered option, or None: a required
\* option is faulty when it is absent, when its value is incompatible with
\* its type, or when it coerces to absent; an optional one when it is present
\* with a value incompatible with its type.
Fault(entry, is_required, opt_dict) ==
  IF entry[1] \notin DOMAIN opt_dict
  THEN IF is_required
       THEN Some(RaiseValueError("RequiredNotFound", entry[1]))
       ELSE None
  ELSE LET r == ProcessOpt(entry[1], opt_dict[entry[1]], entry[2])
       IN  IF Raised(r) THEN Some(r)
           ELSE IF is_required /\ r[2] = None
           THEN Some(RaiseValueError("RequiredNotFound", entry[1]))
           ELSE None

\* The faults in the order of the claim: required options in registration
\* order, then optional options in registration order.
Faults(opt_dict) ==
  [i \in 1..Len(required_opt_dict) |->
     Fault(required_opt_dict[i], TRUE, opt_dict)]
  \o [i \in 1..Len(not_required_opt_dict) |->
        Fault(not_required_opt_dict[i], FALSE, opt_dict)]

FaultyAt(opt_dict) == {k \in 1..Len(Faults(opt_dict)) : Faults(opt_dict)[k] # None}
FirstOf(S) == CHOOSE k \in S : \A m \in S : k <= m

\* C10: when some option is faulty, process_dict raises the error of the
\* earliest faulty one, required options in registration order coming before
\* optional ones, and returns no mapping; when none is, it returns a mapping.
C10_EarliestFaultReported ==
  call.op = "process_dict" =>
    IF FaultyAt(call.args[1]) # {}
    THEN call.result = Faults(call.args[1])[FirstOf(FaultyAt(call.args[1]))][1]
    ELSE ~Raised(call.result)

C10_Witness ==
  /\ call.op = "process_dict"
  /\ Len(required_opt_dict) = 1
  /\ Len(not_required_opt_dict) = 1
  /\ FaultyAt(call.args[1]) = {1, 2}
  /\ required_opt_dict[1][1] \in DOMAIN call.args[1]
  /\ call.result = RaiseValueError("RequiredNotFound", required_opt_dict[1][1])

\* ------------------------------------------- the shapes of a parsed value
\* Every registered option in the order process_dict visits them; entry k of
\* Faults belongs to entry k of Entries.
Entries == required_opt_dict \o not_required_opt_dict

\* The value a returned mapping holds for a key.
Stored(options, opt_name) ==
  options[CHOOSE i \in 1..Len(options) : options[i][1] = opt_name][2]

\* The List shape with at least one element: a sequence of strings.
IsListShape(v) ==
  /\ v[1] = "list"
  /\ v[2] # <<>>
  /\ \A k \in 1..Len(v[2]) : v[2][k][1] = "str"

\* The TupleList shape: at least one element, every element a pair.
IsTupleListShape(v) ==
  /\ v[1] = "list"
  /\ v[2] # <<>>
  /\ \A k \in 1..Len(v[2]) : v[2][k][1] = "tuple"

\* C11 as stated: a mapping returned by process_dict holds a value for a LIST
\* option only when the input value is a non-empty sequence of strings, and
\* then holds that sequence unchanged; a str and a sequence holding a
\* (key, value) pair never give a LIST option a value.
C11_ListOnlyFromListShape ==
  (call.op = "process_dict" /\ ~Raised(call.result)) =>
    \A k \in 1..Len(Entries) :
      (/\ Entries[k][2] = OptType_LIST
       /\ Entries[k][1] \in Keys(call.result[2]))
      => /\ Entries[k][1] \in DOMAIN call.args[1]
         /\ IsListShape(call.args[1][Entries[k][1]])
         /\ Stored(call.result[2], Entries[k][1]) = call.args[1][Entries[k][1]]

\* C12 as stated: for a LIST_OF_TUPLES option present in the input mapping,
\* process_dict returns a mapping only when the value has the TupleList shape,
\* and a str (the empty one included) or a list holding an item that is not a
\* pair makes it raise the type-mismatch error for that option; the error is
\* asked for only when no option visited before this one is faulty.
C12_TupleListOrMismatch ==
  call.op = "process_dict" =>
    \A k \in 1..Len(Entries) :
      (/\ Entries[k][2] = OptType_LIST_OF_TUPLES
       /\ Entries[k][1] \in DOMAIN call.args[1])
      => LET v == call.args[1][Entries[k][1]]
         IN  /\ ~Raised(call.result) => IsTupleListShape(v)
             /\ (/\ \/ v[1] = "str"
                    \/ v[1] = "list"
                         /\ \E m \in 1..Len(v[2]) : v[2][m][1] # "tuple"
                 /\ \A m \in 1..(k - 1) : Faults(call.args[1])[m] = None)
                => call.result = RaiseValueError("NotCompatible", Entries[k][1])

\* C13 as stated: for a BOOL option present in the input mapping,
\* process_dict stores true for "yes" and false for "no", and raises the
\* type-mismatch error for that option for every other value.
C13_BoolStoredOrMismatch ==
  call.op = "process_dict" =>
    \A k \in 1..Len(Entries) :
      (/\ Entries[k][2] = OptType_BOOL
       /\ Entries[k][1] \in DOMAIN call.args[1])
      => LET v == call.args[1][Entries[k][1]]
         IN  IF v \in {StrV("yes"), StrV("no")}
             THEN /\ ~Raised(call.result)
                  /\ Entries[k][1] \in Keys(call.result[2])
                  /\ Stored(call.result[2], Entries[k][1]) = BoolV(v = StrV("yes"))
             ELSE call.result = RaiseValueError("NotCompatible", Entries[k][1])

\* C13 amended: for a BOOL option present in the input mapping, process_dict
\* raises for every value other than "yes" and "no", and raises the
\* type-mismatch error for that option when no option visited before it is
\* faulty; for "yes" and "no" it returns a mapping when no option is faulty;
\* and every mapping it returns holds true for "yes" and false for "no", the
\* false kept under its key.
C13_BoolCoercion ==
  call.op = "process_dict" =>
    \A k \in 1..Len(Entries) :
      (/\ Entries[k][2] = OptType_BOOL
       /\ Entries[k][1] \in DOMAIN call.args[1])
      => LET v == call.args[1][Entries[k][1]]
         IN  IF v \in {StrV("yes"), StrV("no")}
             THEN /\ FaultyAt(call.args[1]) = {} => ~Raised(call.result)
                  /\ ~Raised(call.result) =>
                       /\ Entries[k][1] \in Keys(call.result[2])
                       /\ Stored(call.result[2], Entries[k][1]) =
                            <<"bool", v = StrV("yes")>>
             ELSE /\ Raised(call.result)
                  /\ (\A m \in 1..(k - 1) : Faults(call.args[1])[m] = None)
                     => call.result =
                          RaiseValueError("NotCompatible", Entries[k][1])

C13_Witness ==
  /\ call.op = "process_dict"
  /\ ~Raised(call.result)
  /\ Len(not_required_opt_dict) = 1
  /\ not_required_opt_dict[1][2] = OptType_BOOL
  /\ not_required_opt_dict[1][1] \in DOMAIN call.args[1]
  /\ call.args[1][not_required_opt_dict[1][1]] = StrV("no")
  /\ Len(call.result[2]) = 2

\* C14: a mapping returned by process_dict has no key twice, has only
\* registered names found in the input mapping as keys, maps no key to None,
\* to "" or to [], holds every required option, and leaves out exactly the
\* not-required options that the input mapping lacks or whose value processes
\* to None.
C14_ReturnedMappingKeys ==
  (call.op = "process_dict" /\ ~Raised(call.result)) =>
    LET options == call.result[2]
        opt_dict == call.args[1]
    IN  /\ NoKeyTwice(options)
        /\ Keys(options) \subseteq (Registered \cap DOMAIN opt_dict)
        /\ \A i \in 1..Len(options) :
             options[i][2] \notin {None, <<"str", "">>, <<"list", <<>>>>}
        /\ Keys(required_opt_dict) \subseteq Keys(options)
        /\ \A i \in 1..Len(not_required_opt_dict) :
             LET opt_name == not_required_opt_dict[i][1]
             IN  opt_name \notin Keys(options)
                 <=> \/ opt_name \notin DOMAIN opt_dict
                     \/ ProcessOpt(opt_name, opt_dict[opt_name],
                                   not_required_opt_dict[i][2]) = Return(None)

C14_Witness ==
  /\ call.op = "process_dict"
  /\ ~Raised(call.result)
  /\ Len(required_opt_dict) = 1
  /\ Len(not_required_opt_dict) = 1
  /\ DOMAIN call.args[1] = Names
  /\ Keys(call.result[2]) = Keys(required_opt_dict)

\* ------------------------------------------------- the registries' frame
\* The usage strings of the registered options, required ones first, each
\* group in registration order.
UsageTokens ==
  [k \in 1..Len(Entries) |->
     UsageStr(Entries[k][1], Entries[k][2], k <= Len(required_opt_dict))]

RECURSIVE JoinComma(_)
JoinComma(t) ==
  IF t = <<>> THEN ""
  ELSE IF Len(t) = 1 THEN t[1]
  ELSE t[1] \o "," \o JoinComma(Tail(t))

\* C15: a usage call and a process_dict call, returning or raising, leave
\* both registries and the order of their entries as they were, and the
\* string a usage call returns is fixed by the registries alone: the usage
\* strings of the required options, then of the optional ones, each group in
\* registration order, joined by commas.  Two usage calls with no
\* register_opt call between them therefore return the same string.
C15_UsageAndValidateReadOnly ==
  /\ [][call'.op \in {"usage", "process_dict"} =>
          /\ required_opt_dict' = required_opt_dict
          /\ not_required_opt_dict' = not_required_opt_dict]_vars
  /\ [](call.op = "usage" => call.result = Return(JoinComma(UsageTokens)))

C15_Witness ==
  /\ call.op = "usage"
  /\ Len(required_opt_dict) = 1
  /\ Len(not_required_opt_dict) = 1
  /\ required_opt_dict[1][1] = NameList[2]
  /\ call.result[2] # ""

\* C20: a register_opt call that raises, for a name already registered or
\* for a type that is no OptType member, leaves both registries as they
\* were, entry for entry; and a call with such a name or type raises.
C20_FailedRegisterChangesNothing ==
  [][call'.op = "register_opt" =>
       /\ Raised(call'.result) =>
            /\ required_opt_dict' = required_opt_dict
            /\ not_required_opt_dict' = not_required_opt_dict
       /\ (\/ call'.args[1] \in Registered
           \/ call'.args[2] \notin
                {OptType_STRING, OptType_BOOL, OptType_LIST,
                 OptType_LIST_OF_TUPLES, OptType_YMD_DATE})
          => Raised(call'.result)]_vars

C20_Witness ==
  /\ call.op = "register_opt"
  /\ call.result = RaiseValueError("UnknownType", call.args[1])
  /\ Len(required_opt_dict) = 1
  /\ not_required_opt_dict = <<>>
  /\ call.args[1] \notin Registered

\* ------------------------------------------------ parser's claims, again
\* C16: with the option name set, an = met outside a list, or met inside a
\* list while a tuple key is pending, fails with the two-= error; a , met
\* inside a list leaves no tuple key pending, and an = met inside a list with
\* no key pending and a non-empty buffer is taken as the key separator of
\* that item.
C16_SecondEqualsRejected ==
  [][ /\ (Meets(EQ) /\ gen.name # None
            /\ (~gen.is_list \/ gen.tuple_name # None)) =>
           /\ gen'.pc = "raised"
           /\ gen'.raised = "TwoEquals"
      /\ (Meets(CM) /\ gen.is_list) => gen'.tuple_name = None
      /\ (Meets(EQ) /\ gen.name # None /\ gen.is_list
            /\ gen.tuple_name = None /\ gen.buffer # <<>>) =>
           /\ gen'.pc = "loop"
           /\ gen'.tuple_name = Some(gen.buffer)
           /\ gen'.buffer = <<>> ]_vars

C16_Witness ==
  /\ gen.pc = "loop"
  /\ gen.is_list
  /\ gen.name # None
  /\ gen.tuple_name # None
  /\ gen.data # None
  /\ Len(gen.data[1]) >= 1
  /\ gen.data[1][1][1] = "tuple"

\* The characters not yet read, and what a caller sees of a finished run:
\* the pairs yielded, and whether and with which error it raised.
Rest == SubSeq(opt_str, pos, Len(opt_str))
Outcome(g) == <<g.yielded, g.pc, g.raised>>

\* C17: at every position of an input that is outside a quoted string and
\* not right after an escaping backslash, the end of the input included, the
\* run with a space inserted there yields the same pairs and ends the same
\* way (returning, or raising the same error) as the run without it; and
\* where a space stands at such a position, so does the run with it removed.
C17_SpacesInsignificant ==
  (gen.pc = "loop" /\ ~gen.escape_detected /\ ~gen.string_detected) =>
    /\ Outcome(Run(gen, <<SP>> \o Rest)) = Outcome(Run(gen, Rest))
    /\ Meets(SP) => Outcome(Run(gen, Tail(Rest))) = Outcome(Run(gen, Rest))

C17_Witness ==
  /\ gen.pc = "loop"
  /\ ~gen.escape_detected
  /\ ~gen.string_detected
  /\ gen.buffer # <<>>
  /\ Rest # <<>>
  /\ Head(Rest) \in Ordinary
  /\ Run(gen, <<SP>> \o Rest).pc = "done"
  /\ Len(Run(gen, <<SP>> \o Rest).yielded) >= 2
  /\ \A i \in 1..Len(Run(gen, Rest).yielded) : Run(gen, Rest).yielded[i][1] # None

\* C18 as stated: a run that raises, raises one of the four ValueErrors of
\* the parser: option without name, empty name in a list, two =, list
\* inside a list.
C18_OnlyDeclaredErrors ==
  gen.pc = "raised" =>
    gen.raised \in {"NoName", "EmptyListName", "TwoEquals", "NestedList"}

\* C19 as stated, for an option that has a name: when the run returns at the
\* end of the input, no list is left holding items that a , appended and no
\* ] has yielded, and an option whose [ was never closed is not yielded as a
\* str value.
C19_NoListItemLost ==
  [][(gen.pc = "loop" /\ gen'.pc = "done" /\ gen.name # None) =>
       /\ gen.data = None \/ gen.data[1] = <<>>
       /\ gen.is_list =>
            \/ gen'.yielded = gen.yielded
            \/ gen'.yielded[Len(gen'.yielded)][2][1] # "str"]_vars

====
